---- MODULE Spec2Model ----
(***************************************************************************)
(* Model of apps/frontend/components/builder/forms/generic-list-form.tsx:  *)
(*   GenericListForm   - a text area bound to a parent-owned string array  *)
(*   PersonalInfoForm  - field inputs bound to a parent-owned record, plus *)
(*                       the avatar upload / remove handlers               *)
(* The parent applies every value passed to onChange as the new prop.      *)
(***************************************************************************)
EXTENDS Integers, Sequences, FiniteSets, TLC

\* ------------------------------------------------------------------ bounds
MaxLen == 3
MaxItems == 2
MaxItemLen == 1
MaxEdits == 1
MaxSelects == 2

\* --------------------------------------------------------------- variables
VARIABLES
    items,          \* GenericListForm prop `items` (array of strings)
    textValue,      \* GenericListForm `textValue`, the text area's value
    typed,          \* e.target.value of the latest text-area change event
    cbItems,        \* argument of the latest GenericListForm onChange call
    called,         \* whether GenericListForm onChange was ever invoked
    listEvent,      \* latest GenericListForm event
    heap,           \* PersonalInfo objects, by reference
    dataRef,        \* PersonalInfoForm prop `data` (a reference into heap)
    avatarPreview,  \* useState avatarPreview
    inputValue,     \* fileInputRef.current.value
    pending,        \* FileReaders whose onloadend has not fired yet
    cbArg,          \* argument of the latest PersonalInfoForm onChange call
    cbCount,        \* number of PersonalInfoForm onChange calls
    edits,          \* number of field edits so far
    selects,        \* number of FileReaders created so far
    lastEvent       \* latest PersonalInfoForm event

listVars == <<items, textValue, typed, cbItems, called, listEvent>>
formVars == <<heap, dataRef, avatarPreview, inputValue, pending,
              cbArg, cbCount, edits, selects, lastEvent>>
vars == <<items, textValue, typed, cbItems, called, listEvent,
          heap, dataRef, avatarPreview, inputValue, pending,
          cbArg, cbCount, edits, selects, lastEvent>>

\* ================================================================ strings
\* A text is a sequence of characters; an array of texts is a sequence of
\* such sequences.
LF == "\n"
Chars == {"a", LF}
EmptyStr == <<>>

SeqsUpTo(S, n) == UNION {[1..k -> S] : k \in 0..n}

Texts == SeqsUpTo(Chars, MaxLen)
ItemTexts == SeqsUpTo(Chars, MaxItemLen)
ItemArrays == SeqsUpTo(ItemTexts, MaxItems)

HasLF(s) == \E i \in 1..Len(s) : s[i] = LF

\* String.prototype.split('\n'): the segments between the line breaks; a text
\* without a line break (the empty text too) is one segment.
RECURSIVE Split(_)
Split(s) ==
    IF ~HasLF(s) THEN <<s>>
    ELSE LET i == CHOOSE k \in 1..Len(s) :
                     s[k] = LF /\ \A j \in 1..(k - 1) : s[j] # LF
         IN <<SubSeq(s, 1, i - 1)>> \o Split(SubSeq(s, i + 1, Len(s)))

\* Array.prototype.join('\n'): the elements with a line break between each
\* two neighbours; the empty array joins to the empty text.
RECURSIVE Join(_)
Join(arr) ==
    IF arr = <<>> THEN EmptyStr
    ELSE IF Len(arr) = 1 THEN arr[1]
    ELSE arr[1] \o <<LF>> \o Join(Tail(arr))

\* Faulty variants of the two conversions.
RECURSIVE Concat(_)
Concat(arr) == IF arr = <<>> THEN EmptyStr ELSE arr[1] \o Concat(Tail(arr))

toTextNoSeparator(arr) == Concat(arr)

fromTextSkipEmpty(text) == SelectSeq(Split(text), LAMBDA seg : seg # EmptyStr)

RECURSIVE DropTrailingEmpty(_)
DropTrailingEmpty(arr) ==
    IF arr # <<>> /\ arr[Len(arr)] = EmptyStr
    THEN DropTrailingEmpty(SubSeq(arr, 1, Len(arr) - 1))
    ELSE arr

fromTextDropTrailing(text) == DropTrailingEmpty(Split(text))

\* textValue = items?.join('\n') || ''   (an empty join result is replaced by
\* the empty text, which it already is)
toText(arr) == IF Join(arr) = EmptyStr THEN EmptyStr ELSE Join(arr)

\* handleChange's conversion: value.split('\n')
fromText(text) == Split(text)

\* ========================================================= GenericListForm
\* The parent re-renders the component with the array it was handed (or with
\* another array of its own); textValue is derived on every render.
ListRender(arr) ==
    /\ items' = arr
    /\ textValue' = toText(arr)

\* onChange prop of GenericListForm: the parent stores the array.
ListOnChange(arr) ==
    /\ cbItems' = arr
    /\ called' = TRUE
    /\ ListRender(arr)

\* handleChange(value): onChange(value.split('\n'))
ListHandleChange(value) ==
    /\ typed' = value
    /\ listEvent' = "change"
    /\ ListOnChange(fromText(value))
    /\ UNCHANGED formVars

\* The parent passes a different array (another section, loaded data).
ListSetItems(arr) ==
    /\ arr # items
    /\ listEvent' = "props"
    /\ ListRender(arr)
    /\ UNCHANGED <<typed, cbItems, called, formVars>>

\* ======================================================== PersonalInfoForm
Fields == {"name", "title", "email", "phone", "location", "gender", "age",
           "website", "linkedin", "github", "avatar"}
TextFields == Fields \ {"avatar"}

\* JavaScript null / undefined.
NULL == "null"

\* Values typed into a text input.
Strings == {"x"}
Files == {"a.png", "b.png"}

\* The data URL FileReader.readAsDataURL produces for a file.
DataURL(f) == "data:image/png;base64," \o f

\* v || null
OrNull(v) == IF v = NULL \/ v = "" THEN NULL ELSE v

BlankInfo(av) == [f \in Fields |-> IF f = "avatar" THEN av ELSE ""]

Avatar == heap[dataRef]["avatar"]

FormMount(av) ==
    /\ heap = (1 :> BlankInfo(av))
    /\ dataRef = 1
    /\ avatarPreview = OrNull(av)
    /\ inputValue = ""
    /\ pending = {}
    /\ cbArg = 0
    /\ cbCount = 0
    /\ edits = 0
    /\ selects = 0
    /\ lastEvent = [type |-> "mount"]

ListMount(arr) ==
    /\ items = arr
    /\ textValue = toText(arr)
    /\ typed = EmptyStr
    /\ cbItems = <<>>
    /\ called = FALSE
    /\ listEvent = "mount"

\* Faulty variant: the previous record is written in place and handed back.
handleChangeInPlace(d, field, value) ==
    /\ heap' = [heap EXCEPT ![d] = [@ EXCEPT ![field] = value]]
    /\ cbArg' = d
    /\ cbCount' = cbCount + 1
    /\ dataRef' = d

\* The records still referenced once the parent has stored a new one: the
\* previous props (held until the re-render is done) and the `data` captured
\* by the closures of the readers that stay pending. All others are
\* unreachable and collected.
Reachable == {dataRef} \cup {r.data : r \in pending'}

\* The reference a newly created record gets.
NewRef == CHOOSE i \in 1..(Cardinality(Reachable) + 1) :
              i \notin Reachable /\ \A j \in 1..(i - 1) : j \in Reachable

\* onChange prop of PersonalInfoForm: the parent stores the record it is
\* handed and passes it back as `data`.
onChange(rec) ==
    /\ heap' = [i \in Reachable \cup {NewRef} |->
                   IF i = NewRef THEN rec ELSE heap[i]]
    /\ cbArg' = NewRef
    /\ cbCount' = cbCount + 1
    /\ dataRef' = NewRef

\* handleChange(field, value) of the render whose `data` is heap[d]:
\* onChange({...data, [field]: value})
handleChange(d, field, value) ==
    onChange([heap[d] EXCEPT ![field] = value])

\* A text input's onChange: handleChange(<field>, e.target.value), with the
\* handler of the latest render.
EditField(field, value) ==
    /\ edits < MaxEdits
    /\ edits' = edits + 1
    /\ UNCHANGED pending
    /\ handleChange(dataRef, field, value)
    /\ lastEvent' = [type |-> "edit", field |-> field, value |-> value]
    /\ UNCHANGED <<avatarPreview, inputValue, selects>>
    /\ UNCHANGED listVars

\* The upload button (and with it the file picker) is rendered only while
\* avatarPreview is falsy; the input fires a change event only when its
\* selection changes.
CanSelect(f) ==
    /\ avatarPreview = NULL
    /\ inputValue # f

\* handleAvatarUpload(e) with file = e.target.files?.[0]: a FileReader is
\* created whose onloadend closes over this render's handleChange, and so over
\* this render's `data`.
handleAvatarUpload(file) ==
    /\ IF file # NULL
       THEN /\ pending' = pending \cup
                   {[id |-> selects + 1, file |-> file, data |-> dataRef]}
            /\ selects' = selects + 1
       ELSE UNCHANGED <<pending, selects>>
    /\ UNCHANGED <<heap, dataRef, avatarPreview, cbArg, cbCount>>

\* The user picks file f in the file picker.
SelectFile(f) ==
    /\ selects < MaxSelects
    /\ CanSelect(f)
    /\ inputValue' = f
    /\ handleAvatarUpload(f)
    /\ lastEvent' = [type |-> "select", file |-> f]
    /\ UNCHANGED edits
    /\ UNCHANGED listVars

\* The user dismisses the picker and the input's selection is dropped: a
\* change event whose file list is empty.
SelectNone ==
    /\ avatarPreview = NULL
    /\ inputValue # ""
    /\ inputValue' = ""
    /\ handleAvatarUpload(NULL)
    /\ lastEvent' = [type |-> "nofile"]
    /\ UNCHANGED edits
    /\ UNCHANGED listVars

\* Faulty variant: a completion of a reader that is not the newest is dropped.
onloadendDiscardStale(r, result) ==
    IF r.id = selects
    THEN /\ avatarPreview' = result
         /\ handleChange(r.data, "avatar", result)
    ELSE UNCHANGED <<avatarPreview, heap, dataRef, cbArg, cbCount>>

\* reader.onloadend: base64 = reader.result; setAvatarPreview(base64);
\* handleChange('avatar', base64), with the handleChange the closure captured.
onloadend(r, result) ==
    /\ avatarPreview' = result
    /\ handleChange(r.data, "avatar", result)

\* What reader.result can hold when loadend fires: the data URL, or null
\* when the read failed.
ReadResults(f) == {DataURL(f), NULL}

\* The read of a pending reader ends (in any order among the pending ones).
LoadEnd(r, result) ==
    /\ r \in pending
    /\ result \in ReadResults(r.file)
    /\ pending' = pending \ {r}
    /\ onloadend(r, result)
    /\ lastEvent' = [type |-> "loadend", id |-> r.id, result |-> result]
    /\ UNCHANGED <<inputValue, edits, selects>>
    /\ UNCHANGED listVars

\* Faulty variant: the file input keeps its value.
handleRemoveAvatarKeepInput ==
    /\ avatarPreview' = NULL
    /\ handleChange(dataRef, "avatar", "")
    /\ UNCHANGED inputValue

\* Faulty variant: only the preview is cleared.
handleRemoveAvatarPreviewOnly ==
    /\ avatarPreview' = NULL
    /\ UNCHANGED <<heap, dataRef, cbArg, cbCount>>
    /\ inputValue' = ""

\* handleRemoveAvatar: setAvatarPreview(null); handleChange('avatar', '');
\* fileInputRef.current.value = ''
handleRemoveAvatar ==
    /\ avatarPreview' = NULL
    /\ handleChange(dataRef, "avatar", "")
    /\ inputValue' = ""

\* The remove button is rendered only while avatarPreview is truthy.
RemoveAvatar ==
    /\ OrNull(avatarPreview) # NULL
    /\ UNCHANGED pending
    /\ handleRemoveAvatar
    /\ lastEvent' = [type |-> "remove"]
    /\ UNCHANGED <<edits, selects>>
    /\ UNCHANGED listVars

\* ========================================================== specifications
InitialAvatars == {NULL, "", DataURL("a.png")}

Init ==
    /\ ListMount(<<>>)
    /\ \E av \in InitialAvatars : FormMount(av)

Next ==
    \/ \E field \in TextFields, value \in Strings : EditField(field, value)
    \/ \E f \in Files : SelectFile(f)
    \/ SelectNone
    \/ \E r \in pending, result \in {NULL} \cup {DataURL(f) : f \in Files} :
           LoadEnd(r, result)
    \/ RemoveAvatar

Spec == Init /\ [][Next]_vars

ListInit ==
    /\ \E arr \in ItemArrays : ListMount(arr)
    /\ FormMount("")

ListNext ==
    \/ \E value \in Texts : ListHandleChange(value)
    \/ \E arr \in ItemArrays : ListSetItems(arr)

ListSpec == ListInit /\ [][ListNext]_vars

\* ================================================================== claims
NoLineBreaks(arr) == \A i \in 1..Len(arr) : ~HasLF(arr[i])

\* C1 (as stated): for every array of line-break-free items, the empty array
\* included, splitting the text area's text gives the array back.
C1_RoundTripEverySequence ==
    NoLineBreaks(items) => fromText(textValue) = items

\* C1 (amended): for every non-empty array of line-break-free items (empty
\* items included), splitting the text area's text gives the array back.
C1_RoundTripNonEmpty ==
    (items # <<>> /\ NoLineBreaks(items)) => fromText(textValue) = items

C1_Witness ==
    /\ items = <<EmptyStr, <<"a">>>>
    /\ textValue = <<LF, "a">>
    /\ fromText(textValue) = items

\* C6: the empty array is shown as the empty text, the empty text is handed
\* to the callback as the one-element array [""], and the callback never
\* receives an empty array.
C6_EmptyAsymmetry ==
    /\ items = <<>> => textValue = EmptyStr
    /\ (called /\ typed = EmptyStr) => cbItems = <<EmptyStr>>
    /\ called => cbItems # <<>>

C6_Witness ==
    /\ called
    /\ typed = EmptyStr
    /\ cbItems = <<EmptyStr>>
    /\ items = <<>>
    /\ textValue = EmptyStr

\* C10: once the parent has applied the array handed to the callback, the
\* text area shows exactly the text that was typed.
C10_TypedTextPreserved ==
    listEvent = "change" => (items = cbItems /\ textValue = typed)

C10_Witness ==
    /\ listEvent = "change"
    /\ typed = <<LF, LF, "a">>
    /\ cbItems = <<EmptyStr, EmptyStr, <<"a">>>>
    /\ textValue = typed

\* C2: a field edit hands the callback a fresh record that holds the typed
\* value at the edited field and the current record's value at every other
\* field; the current record, and every record a pending reader captured, is
\* left as it was.
C2_EditReplacesOneField ==
    [][lastEvent'.type = "edit" =>
          /\ cbCount' = cbCount + 1
          /\ dataRef' = cbArg'
          /\ cbArg' # dataRef
          /\ heap'[cbArg'][lastEvent'.field] = lastEvent'.value
          /\ \A f \in Fields \ {lastEvent'.field} :
                 heap'[cbArg'][f] = heap[dataRef][f]
          /\ heap'[dataRef] = heap[dataRef]
          /\ \A r \in pending : heap'[r.data] = heap[r.data]]_vars

C2_Witness ==
    /\ lastEvent.type = "edit"
    /\ lastEvent.field = "email"
    /\ heap[dataRef]["email"] = "x"
    /\ heap[dataRef]["name"] = ""
    /\ Avatar = DataURL("b.png")

\* C3: a non-null preview equals record.avatar, a null preview goes with a
\* record whose avatar holds no image data, and right after a read completes
\* both hold that read's result.
C3_PreviewMatchesAvatar ==
    /\ avatarPreview # NULL => avatarPreview = Avatar
    /\ avatarPreview = NULL => Avatar \in {NULL, ""}
    /\ lastEvent.type = "loadend" =>
           (avatarPreview = lastEvent.result /\ Avatar = lastEvent.result)

C3_Witness ==
    /\ lastEvent.type = "remove"
    /\ selects = 2
    /\ pending # {}
    /\ avatarPreview = NULL
    /\ Avatar = ""

\* C4: removing the avatar sets the preview to null, hands the callback the
\* current record with avatar "" and every other field kept, and empties the
\* file input, so that every file, the one just removed too, can be selected
\* again.
C4_RemoveClearsAndResets ==
    [][lastEvent'.type = "remove" =>
          /\ avatarPreview # NULL
          /\ avatarPreview' = NULL
          /\ cbCount' = cbCount + 1
          /\ dataRef' = cbArg'
          /\ heap'[cbArg'] = [heap[dataRef] EXCEPT !["avatar"] = ""]
          /\ inputValue' = ""
          /\ \A f \in Files : CanSelect(f)']_vars

C4_Witness ==
    /\ lastEvent.type = "select"
    /\ lastEvent.file = "a.png"
    /\ selects = 2
    /\ pending = {[id |-> 2, file |-> "a.png", data |-> dataRef]}
    /\ Avatar = ""
    /\ heap[dataRef]["name"] = "x"

\* C7: a file selection cancels no outstanding read, every completion sets
\* the preview and the avatar field to its own result, and so after two
\* overlapping reads both hold the result of the one that completed last.
C7_LastCompletionWins ==
    [][/\ lastEvent'.type = "select" =>
              (pending \subseteq pending'
                  /\ Cardinality(pending') = Cardinality(pending) + 1)
       /\ lastEvent'.type = "loadend" =>
              /\ avatarPreview' = lastEvent'.result
              /\ Avatar' = lastEvent'.result
              /\ cbCount' = cbCount + 1]_vars

C7_Witness ==
    /\ lastEvent.type = "loadend"
    /\ lastEvent.id = 1
    /\ selects = 2
    /\ pending = {}
    /\ inputValue = "b.png"
    /\ avatarPreview = DataURL("a.png")
    /\ Avatar = DataURL("a.png")

\* C5: a selection event without a file, and a read that ends in failure,
\* change nothing: the preview and the record stay as they are and the
\* callback is not invoked.
C5_FailureChangesNothing ==
    [][(\/ lastEvent'.type = "nofile"
        \/ (lastEvent'.type = "loadend" /\ lastEvent'.result = NULL)) =>
          /\ avatarPreview' = avatarPreview
          /\ cbCount' = cbCount
          /\ heap'[dataRef'] = heap[dataRef]]_vars

\* C8: when a read completes with a result, the record handed to the
\* callback equals the parent's current record in every field except avatar.
C8_EditsSurviveCompletion ==
    [][(lastEvent'.type = "loadend" /\ lastEvent'.result # NULL) =>
          \A f \in TextFields : heap'[cbArg'][f] = heap[dataRef][f]]_vars

\* C9: after the avatar was removed, the preview stays null and the avatar
\* field stays empty in every step that is not a new file selection; the
\* completion of a read started before the removal is such a step.
C9_RemovedStaysRemoved ==
    [][(lastEvent.type = "remove" /\ lastEvent'.type # "select") =>
          (avatarPreview' = NULL /\ OrNull(Avatar') = NULL)]_vars

====
